---- MODULE Spec2Model ----
(***************************************************************************)
(* AI_Carpenter_Bot/index.js: a scripted game client that loads a build    *)
(* plan, connects, resolves a spatial origin and replays the plan as       *)
(* /tp and /setblock chat commands paced by the game's tick clock.         *)
(*                                                                         *)
(* JavaScript runs one synchronous segment at a time: every action below   *)
(* is one such segment (from one await to the next), and the events of     *)
(* the client library (ticks, spawn, error, kicked, position updates) are  *)
(* delivered only while the executor is suspended at an await.             *)
(*                                                                         *)
(* Coordinates are fixed-point numbers: one block is Scale units, so that  *)
(* an entity can stand at a fractional position and floored() is a real    *)
(* conversion.                                                             *)
(***************************************************************************)
EXTENDS Integers, Sequences, FiniteSets, TLC

(* ------------------------------ bounds -------------------------------- *)

\* longest plan explored
MaxLen == 2

\* the length of the long plans, on which the cadence of the progress lines shows
LongLen == 12
\* fixed-point units per block
Scale == 2

(* ------------------------- program constants -------------------------- *)

SpawnSettleTicks == 20
TpSettleTicks == 20
FlySettleTicks == 40
SyncSettleTicks == 40
MoveSettleTicks == 20
PaceTicks == 5
FinalTicks == 4
Reach == 4
HoverOffset == 5
MoveOffset == 2
ProgressEvery == 5

(* ------------------------------ vectors ------------------------------- *)

Vec3(x, y, z) == [x |-> x, y |-> y, z |-> z]

\* a whole number of blocks as a fixed-point number
Blocks(n) == n * Scale

\* Vec3.offset(dx, dy, dz), the arguments in blocks
Offset(v, dx, dy, dz) == Vec3(v.x + Blocks(dx), v.y + Blocks(dy), v.z + Blocks(dz))

\* mutant of Floor: rounding toward zero
Floor_TowardZero(n) ==
    IF n >= 0 THEN (n \div Scale) * Scale ELSE 0 - (((0 - n) \div Scale) * Scale)

\* Math.floor of a fixed-point number (\div rounds towards minus infinity)
Floor(n) == (n \div Scale) * Scale

\* Vec3.floored()
Floored(v) == Vec3(Floor(v.x), Floor(v.y), Floor(v.z))

\* square of Vec3.distanceTo, in squared fixed-point units
DistSq(a, b) ==
    (a.x - b.x) * (a.x - b.x) + (a.y - b.y) * (a.y - b.y) + (a.z - b.z) * (a.z - b.z)

\* mutant of TooFar: the threshold itself counts as out of reach
TooFar_Inclusive(pos, tgt) == DistSq(pos, tgt) >= Blocks(Reach) * Blocks(Reach)

\* bot.entity.position.distanceTo(targetPos) > 4
TooFar(pos, tgt) == DistSq(pos, tgt) > Blocks(Reach) * Blocks(Reach)

(* --------------------------- invocation ------------------------------- *)

\* process.argv[i] of an argument that was not given
Undefined == "undefined"

\* JavaScript truthiness of a command-line argument (a string or undefined)
Truthy(s) == s # Undefined /\ s # ""

\* parseFloat on the argument strings the model supplies
ParseFloat(s) ==
    CASE s = "0" -> Blocks(0)
      [] s = "10" -> Blocks(10)
      [] s = "64" -> Blocks(64)

\* the [OriginX] [OriginY] [OriginZ] arguments the model supplies
ArgChoices ==
    { <<Undefined, Undefined, Undefined>>,
      <<"10", "64", Undefined>>,
      <<"10", "64", "0">> }

(* ------------------------------ plans --------------------------------- *)

Instr(x, y, z, action, block) ==
    [x |-> x, y |-> y, z |-> z, action |-> action, block |-> block]

\* the instructions plans are built from: a placement 5 blocks below the
\* hover point (out of reach), one exactly 4 blocks below it (the reach
\* threshold), and an annotation far away
Instrs ==
    { Instr(0, 0, 0, "setblock", "stone"),
      Instr(0, 1, 0, "place", "oak_planks"),
      Instr(6, 0, 0, "annotation", "glass") }

Plans == UNION { [1..n -> Instrs] : n \in 0..MaxLen }

\* the parsed plan file: with or without an "instructions" field
PlanFiles ==
    { [hasInstructions |-> TRUE, instructions |-> p] : p \in Plans }
        \cup { [hasInstructions |-> FALSE, instructions |-> <<>>] }

\* plan.instructions || []
InstructionsOf(pl) == IF pl.hasInstructions THEN pl.instructions ELSE <<>>

\* mutant of Recognized: 'place' is forgotten
Recognized_OnlySetblock(action) == action = "setblock"

\* action === 'setblock' || action === 'place'
Recognized(action) == action = "setblock" \/ action = "place"

(* ------------------------------ world --------------------------------- *)

\* where the agent spawns
SpawnPoint == Vec3(Blocks(0), Blocks(70), Blocks(0))

\* where a player can stand (fractional and negative coordinates included)
PlayerSpots ==
    { Vec3(Blocks(10) + 1, Blocks(64), Blocks(10) + 1),
      Vec3(Blocks(0) - 1, Blocks(64), Blocks(3)) }

(* ------------------------------ state --------------------------------- *)

VARIABLES
    projectName,   \* process.argv[2]
    args,          \* <<argX, argY, argZ>>
    fileState,     \* "missing", "badjson" or "ok"
    plan,          \* the parsed content of the plan file
    instructions,  \* const instructions (line 31)
    pcMain,        \* "start", "exited" or "running"
    exitCode,      \* process exit code, -1 while the process runs
    conn,          \* "none", "connecting", "online" or "ended"
    spawnOnce,     \* the once('spawn') listener is still registered
    pc,            \* where the spawn handler / executePlan is suspended
    ticks,         \* ticks left of the pending waitForTicks
    now,           \* ticks counted by waitForTicks since spawn
    origin,        \* <<>> for null, <<v>> once set
    target,        \* nearestEntity's result was an entity
    count,         \* let count (line 86)
    targetPos,     \* const targetPos of the current instruction
    botPos,        \* bot.entity.position
    pendingTp,     \* teleports sent and not yet applied by the server
    flying,        \* bot.creative.startFlying() was called
    playerHere,    \* a player entity is known to the agent
    playerPos,     \* that entity's position
    out,           \* every call made on the bot, in order
    console,       \* progress lines logged (the instruction counts)
    began,         \* history: the time each iteration of the loop began
    faults,        \* the lifecycle events logged: "error", "kicked"
    faultInLoop,   \* such an event arrived inside the instruction loop
    world,         \* the blocks present in the world: position and block
    respawned      \* the library has emitted a further 'spawn' event

vars ==
    << projectName, args, fileState, plan, instructions, pcMain, exitCode, conn,
       spawnOnce, pc, ticks, now, origin, target, count, targetPos, botPos,
       pendingTp, flying, playerHere, playerPos, out, console, began, faults, faultInLoop,
       world, respawned >>

argX == args[1]
argY == args[2]
argZ == args[3]

\* one call on the bot: its kind, position and block, the placement modifier,
\* and as history the instruction count, the time and where the agent stood
Call(k, p, b) ==
    [k |-> k, p |-> p, b |-> b, m |-> "", i |-> count, t |-> now, from |-> botPos]

\* the position field of a call that carries no position
NoVec == Vec3(0, 0, 0)

\* the awaits of waitForTicks
WaitPcs == {"w_gm", "w_tp", "w_fly", "w_sync", "w_move", "w_pace", "w_final"}

\* the awaits inside the for loop
LoopPcs == {"w_move", "w_look", "w_pace"}

\* the pending waitForTicks has resolved
Resolved(p) == pc = p /\ ticks = 0

\* synchronous code is ready to run: no event is delivered before it has run
Runnable ==
    \/ pcMain = "start"
    \/ pc \in {"loop", "place"}
    \/ pc \in WaitPcs /\ ticks = 0

(* ------------------------------- Init --------------------------------- *)

Start(planFiles, argChoices, worlds) ==
    /\ projectName \in {Undefined, "demo"}
    /\ args \in argChoices
    /\ fileState \in {"missing", "badjson", "ok"}
    /\ plan \in planFiles
    /\ world \in worlds
    /\ respawned = FALSE
    /\ instructions = <<>>
    /\ pcMain = "start"
    /\ exitCode = -1
    /\ conn = "none"
    /\ spawnOnce = FALSE
    /\ pc = "idle"
    /\ ticks = 0
    /\ now = 0
    /\ origin = <<>>
    /\ target = FALSE
    /\ count = 0
    /\ targetPos = NoVec
    /\ botPos = SpawnPoint
    /\ pendingTp = <<>>
    /\ flying = FALSE
    /\ playerHere \in BOOLEAN
    /\ playerPos \in PlayerSpots
    /\ out = <<>>
    /\ console = <<>>
    /\ began = <<>>
    /\ faults = {}
    /\ faultInLoop = FALSE

\* the runs checked by default: well-formed plans in an empty world
Init == Start(PlanFiles, ArgChoices, {{}})

(* ------------------------ module top level ---------------------------- *)

mainVars == << projectName, args, fileState, plan >>
execVars == << pc, ticks, origin, target, count, targetPos, flying, out, console, began >>
worldVars == << botPos, pendingTp, playerHere, playerPos >>
faultVars == << faults, faultInLoop >>
envVars == << world, respawned >>

\* lines 13-16: no project name
MainUsageError ==
    /\ pcMain = "start"
    /\ ~Truthy(projectName)
    /\ pcMain' = "exited"
    /\ exitCode' = 1
    /\ UNCHANGED << mainVars, instructions, conn, spawnOnce, now, execVars,
                    worldVars, faultVars, envVars >>

\* mutant of MainFileNotFound: the file check runs after the bot was created
MainFileNotFound_AfterConnect ==
    /\ pcMain = "start"
    /\ Truthy(projectName)
    /\ fileState = "missing"
    /\ conn' = "connecting"
    /\ pcMain' = "exited"
    /\ exitCode' = 1
    /\ UNCHANGED << mainVars, instructions, spawnOnce, now, execVars, worldVars,
                    faultVars, envVars >>

\* lines 24-27: the plan file does not exist
MainFileNotFound ==
    /\ pcMain = "start"
    /\ Truthy(projectName)
    /\ fileState = "missing"
    /\ pcMain' = "exited"
    /\ exitCode' = 1
    /\ UNCHANGED << mainVars, instructions, conn, spawnOnce, now, execVars,
                    worldVars, faultVars, envVars >>

\* line 30: JSON.parse throws, the exception is uncaught
MainParseError ==
    /\ pcMain = "start"
    /\ Truthy(projectName)
    /\ fileState = "badjson"
    /\ pcMain' = "exited"
    /\ exitCode' = 1
    /\ UNCHANGED << mainVars, instructions, conn, spawnOnce, now, execVars,
                    worldVars, faultVars, envVars >>

\* lines 29-41 and 129-130: load the plan, create the bot, register the handlers
MainCreateBot ==
    /\ pcMain = "start"
    /\ Truthy(projectName)
    /\ fileState = "ok"
    /\ instructions' = InstructionsOf(plan)
    /\ conn' = "connecting"
    /\ spawnOnce' = TRUE
    /\ pcMain' = "running"
    /\ UNCHANGED << mainVars, exitCode, now, execVars, worldVars, faultVars, envVars >>

(* -------------------------- spawn handler ----------------------------- *)

\* the library emits 'spawn' (lines 41-44); the once listener runs on the
\* first emission only
EmitSpawn ==
    /\ ~Runnable
    /\ conn = "connecting"
    /\ conn' = "online"
    /\ spawnOnce' = FALSE
    /\ IF spawnOnce
       THEN /\ out' = Append(out, Call("gamemode", NoVec, ""))
            /\ ticks' = SpawnSettleTicks
            /\ pc' = "w_gm"
       ELSE UNCHANGED << out, ticks, pc >>
    /\ UNCHANGED << mainVars, instructions, pcMain, exitCode, now, origin, target,
                    count, targetPos, flying, console, began, worldVars, faultVars, envVars >>

\* one physicsTick while a waitForTicks is pending.  The server is taken to
\* apply a teleport within the wait the code places after it: the last tick
\* of a wait does not come while a teleport is outstanding
Tick ==
    /\ ~Runnable
    /\ conn = "online"
    /\ pc \in WaitPcs
    /\ ticks > 0
    /\ ticks = 1 => pendingTp = <<>>
    /\ ticks' = ticks - 1
    /\ now' = now + 1
    /\ UNCHANGED << mainVars, instructions, pcMain, exitCode, conn, spawnOnce, pc,
                    origin, target, count, targetPos, flying, out, console, began,
                    worldVars, faultVars, envVars >>

(* ---------------------------- executePlan ----------------------------- *)

\* argX && argY && argZ
ExplicitOrigin == Truthy(argX) /\ Truthy(argY) /\ Truthy(argZ)

\* new Vec3(parseFloat(argX), parseFloat(argY), parseFloat(argZ))
ParsedOrigin == Vec3(ParseFloat(argX), ParseFloat(argY), ParseFloat(argZ))

\* lines 50-64: the explicit branch up to its first wait
ExecExplicit ==
    /\ Resolved("w_gm")
    /\ ExplicitOrigin
    /\ origin' = << ParsedOrigin >>
    /\ out' = out \o << Call("say_start", NoVec, ""),
                        Call("say_origin", ParsedOrigin, ""),
                        Call("tp", Offset(ParsedOrigin, 0, HoverOffset, 0), "") >>
    /\ pendingTp' = Append(pendingTp,
                           [toPlayer |-> FALSE, pos |-> Offset(ParsedOrigin, 0, HoverOffset, 0)])
    /\ ticks' = TpSettleTicks
    /\ pc' = "w_tp"
    /\ UNCHANGED << mainVars, instructions, pcMain, exitCode, conn, spawnOnce, now,
                    target, count, targetPos, flying, console, began, botPos, playerHere,
                    playerPos, faultVars, envVars >>

\* mutant of ExecStartFlying: no settle wait after entering flight mode
ExecStartFlying_NoSettle ==
    /\ Resolved("w_tp")
    /\ flying' = TRUE
    /\ out' = Append(out, Call("fly", NoVec, ""))
    /\ ticks' = 0
    /\ pc' = "w_fly"
    /\ UNCHANGED << mainVars, instructions, pcMain, exitCode, conn, spawnOnce, now,
                    origin, target, count, targetPos, console, began, worldVars,
                    faultVars, envVars >>

\* lines 65-66
ExecStartFlying ==
    /\ Resolved("w_tp")
    /\ flying' = TRUE
    /\ out' = Append(out, Call("fly", NoVec, ""))
    /\ ticks' = FlySettleTicks
    /\ pc' = "w_fly"
    /\ UNCHANGED << mainVars, instructions, pcMain, exitCode, conn, spawnOnce, now,
                    origin, target, count, targetPos, console, began, worldVars, faultVars, envVars >>

\* lines 86-87 after the explicit branch
ExecEnterLoop ==
    /\ Resolved("w_fly")
    /\ count' = 0
    /\ pc' = "loop"
    /\ UNCHANGED << mainVars, instructions, pcMain, exitCode, conn, spawnOnce, now,
                    ticks, origin, target, targetPos, flying, out, console, began,
                    worldVars, faultVars, envVars >>

\* mutant of ExecNoPlayer: the return is missing, the teleport to the player
\* and its wait follow the diagnostic
ExecNoPlayer_FallsThrough ==
    /\ Resolved("w_gm")
    /\ ~ExplicitOrigin
    /\ ~playerHere
    /\ target' = FALSE
    /\ out' = out \o << Call("say_start", NoVec, ""), Call("query", NoVec, ""),
                        Call("say_noplayer", NoVec, ""), Call("tp_player", NoVec, "") >>
    /\ ticks' = SyncSettleTicks
    /\ pc' = "w_sync"
    /\ UNCHANGED << mainVars, instructions, pcMain, exitCode, conn, spawnOnce, now,
                    origin, count, targetPos, flying, console, began, worldVars,
                    faultVars, envVars >>

\* lines 50, 69-73: no coordinates and no player: executePlan returns
ExecNoPlayer ==
    /\ Resolved("w_gm")
    /\ ~ExplicitOrigin
    /\ ~playerHere
    /\ target' = FALSE
    /\ out' = out \o << Call("say_start", NoVec, ""), Call("query", NoVec, ""),
                        Call("say_noplayer", NoVec, "") >>
    /\ pc' = "returned"
    /\ UNCHANGED << mainVars, instructions, pcMain, exitCode, conn, spawnOnce, now,
                    ticks, origin, count, targetPos, flying, console, began, worldVars,
                    faultVars, envVars >>

\* lines 50, 69, 76-78: teleport to the player found
ExecSyncPlayer ==
    /\ Resolved("w_gm")
    /\ ~ExplicitOrigin
    /\ playerHere
    /\ target' = TRUE
    /\ out' = out \o << Call("say_start", NoVec, ""), Call("query", NoVec, ""),
                        Call("tp_player", NoVec, "") >>
    /\ pendingTp' = Append(pendingTp, [toPlayer |-> TRUE, pos |-> NoVec])
    /\ ticks' = SyncSettleTicks
    /\ pc' = "w_sync"
    /\ UNCHANGED << mainVars, instructions, pcMain, exitCode, conn, spawnOnce, now,
                    origin, count, targetPos, flying, console, began, botPos, playerHere,
                    playerPos, faultVars, envVars >>

\* lines 79-87: start flying, read the origin off the entity, enter the loop
ExecDeriveOrigin ==
    /\ Resolved("w_sync")
    /\ flying' = TRUE
    /\ origin' = << Floored(playerPos) >>
    /\ out' = out \o << Call("fly", NoVec, ""), Call("say_origin", Floored(playerPos), "") >>
    /\ count' = 0
    /\ pc' = "loop"
    /\ UNCHANGED << mainVars, instructions, pcMain, exitCode, conn, spawnOnce, now,
                    ticks, target, targetPos, console, began, worldVars, faultVars, envVars >>

(* ------------------------- the instruction loop ----------------------- *)

\* the instruction the next iteration takes, and its world position
NextInstr == instructions[count + 1]

\* mutant of NextTarget: the origin is the entity's own position object, floored
\* in place, so that it follows the entity
NextTarget_FollowsPlayer ==
    IF target
    THEN Offset(Floored(playerPos), NextInstr.x, NextInstr.y, NextInstr.z)
    ELSE Offset(origin[1], NextInstr.x, NextInstr.y, NextInstr.z)

NextTarget == Offset(origin[1], NextInstr.x, NextInstr.y, NextInstr.z)

\* bot.chat(`/setblock ${targetPos.x} ${targetPos.y} ${targetPos.z} ${block} replace`)
SetBlock(pos, block) == [Call("setblock", pos, block) EXCEPT !.m = "replace"]

\* mutant of LogsProgress: the last instruction is not logged for itself
LogsProgress_NoLast(c, total) == c % ProgressEvery = 0 \/ c = 1

\* count % 5 === 0 || count === 1 || count === total
LogsProgress(c, total) == c % ProgressEvery = 0 \/ c = 1 \/ c = total

loopFrame == << mainVars, instructions, pcMain, exitCode, conn, spawnOnce, now,
                origin, target, flying, playerHere, playerPos, botPos, faultVars,
                respawned >>

\* an iteration begins: count++ (line 90) and targetPos (line 94)
BeginIteration ==
    /\ count' = count + 1
    /\ targetPos' = NextTarget
    /\ began' = Append(began, now)

\* mutant of LoopSkip: a skipped instruction is not followed by the pacing wait
LoopSkip_NoPace ==
    /\ pc = "loop"
    /\ count < Len(instructions)
    /\ ~Recognized(NextInstr.action)
    /\ BeginIteration
    /\ ticks' = 0
    /\ pc' = "w_pace"
    /\ UNCHANGED << loopFrame, world, pendingTp, out, console >>

\* mutant of LoopSkip: the reposition is decided before the action is looked at
LoopSkip_Teleports ==
    /\ pc = "loop"
    /\ count < Len(instructions)
    /\ ~Recognized(NextInstr.action)
    /\ BeginIteration
    /\ out' = IF TooFar(botPos, NextTarget)
              THEN Append(out, [Call("tp", Offset(NextTarget, 0, MoveOffset, 0), "")
                                    EXCEPT !.i = count + 1])
              ELSE out
    /\ pendingTp' = IF TooFar(botPos, NextTarget)
                    THEN Append(pendingTp, [toPlayer |-> FALSE,
                                            pos |-> Offset(NextTarget, 0, MoveOffset, 0)])
                    ELSE pendingTp
    /\ ticks' = PaceTicks
    /\ pc' = "w_pace"
    /\ UNCHANGED << loopFrame, world, console >>

\* lines 89-96, 119: an instruction whose action is not a placement
LoopSkip ==
    /\ pc = "loop"
    /\ count < Len(instructions)
    /\ ~Recognized(NextInstr.action)
    /\ BeginIteration
    /\ ticks' = PaceTicks
    /\ pc' = "w_pace"
    /\ UNCHANGED << loopFrame, world, pendingTp, out, console >>

\* mutant of LoopMove: the reposition goes to the hover height of the start
LoopMove_TooHigh ==
    /\ pc = "loop"
    /\ count < Len(instructions)
    /\ Recognized(NextInstr.action)
    /\ TooFar(botPos, NextTarget)
    /\ BeginIteration
    /\ out' = Append(out, [Call("tp", Offset(NextTarget, 0, HoverOffset, 0), "")
                               EXCEPT !.i = count + 1])
    /\ pendingTp' = Append(pendingTp,
                           [toPlayer |-> FALSE, pos |-> Offset(NextTarget, 0, HoverOffset, 0)])
    /\ ticks' = MoveSettleTicks
    /\ pc' = "w_move"
    /\ UNCHANGED << loopFrame, world, console >>

\* lines 89-102: a placement out of reach: teleport above the target and wait
LoopMove ==
    /\ pc = "loop"
    /\ count < Len(instructions)
    /\ Recognized(NextInstr.action)
    /\ TooFar(botPos, NextTarget)
    /\ BeginIteration
    /\ out' = Append(out, [Call("tp", Offset(NextTarget, 0, MoveOffset, 0), "")
                               EXCEPT !.i = count + 1])
    /\ pendingTp' = Append(pendingTp,
                           [toPlayer |-> FALSE, pos |-> Offset(NextTarget, 0, MoveOffset, 0)])
    /\ ticks' = MoveSettleTicks
    /\ pc' = "w_move"
    /\ UNCHANGED << loopFrame, world, console >>

\* lines 89-98, 106: a placement within reach: look at the target at once
LoopLook ==
    /\ pc = "loop"
    /\ count < Len(instructions)
    /\ Recognized(NextInstr.action)
    /\ ~TooFar(botPos, NextTarget)
    /\ BeginIteration
    /\ out' = Append(out, [Call("look", NextTarget, "") EXCEPT !.i = count + 1])
    /\ pc' = "w_look"
    /\ UNCHANGED << loopFrame, world, pendingTp, ticks, console >>

\* line 106 after the reposition wait
AfterMove ==
    /\ Resolved("w_move")
    /\ out' = Append(out, Call("look", targetPos, ""))
    /\ pc' = "w_look"
    /\ UNCHANGED << loopFrame, world, pendingTp, ticks, count, targetPos, console, began >>

\* the library resolves the promise of lookAt
LookAtResolves ==
    /\ pc = "w_look"
    /\ conn = "online"
    /\ pc' = "place"
    /\ UNCHANGED << loopFrame, world, pendingTp, ticks, count, targetPos, out, console, began >>

\* mutant of Place: the command is left out when the world already holds the
\* block at the target position
Place_SkipIfPresent ==
    /\ pc = "place"
    /\ out' = IF [p |-> targetPos, b |-> instructions[count].block] \in world
              THEN out
              ELSE Append(out, SetBlock(targetPos, instructions[count].block))
    /\ console' = IF LogsProgress(count, Len(instructions))
                  THEN Append(console, count)
                  ELSE console
    /\ world' = { w \in world : w.p # targetPos }
                 \cup { [p |-> targetPos, b |-> instructions[count].block] }
    /\ ticks' = PaceTicks
    /\ pc' = "w_pace"
    /\ UNCHANGED << loopFrame, pendingTp, count, targetPos, began >>

\* lines 109-119: the placement command, the progress line, the pacing wait
Place ==
    /\ pc = "place"
    /\ out' = Append(out, SetBlock(targetPos, instructions[count].block))
    /\ console' = IF LogsProgress(count, Len(instructions))
                  THEN Append(console, count)
                  ELSE console
    /\ world' = { w \in world : w.p # targetPos }
                 \cup { [p |-> targetPos, b |-> instructions[count].block] }
    /\ ticks' = PaceTicks
    /\ pc' = "w_pace"
    /\ UNCHANGED << loopFrame, pendingTp, count, targetPos, began >>

\* line 119 resolved: back to the head of the loop
AfterPace ==
    /\ Resolved("w_pace")
    /\ pc' = "loop"
    /\ UNCHANGED << loopFrame, world, pendingTp, ticks, count, targetPos, out, console, began >>

\* mutant of LoopExit: the final settle delay is missing
LoopExit_NoFinalDelay ==
    /\ pc = "loop"
    /\ count = Len(instructions)
    /\ ticks' = 0
    /\ pc' = "w_final"
    /\ UNCHANGED << loopFrame, world, pendingTp, count, targetPos, out, console, began >>

\* line 123: the loop is over
LoopExit ==
    /\ pc = "loop"
    /\ count = Len(instructions)
    /\ ticks' = FinalTicks
    /\ pc' = "w_final"
    /\ UNCHANGED << loopFrame, world, pendingTp, count, targetPos, out, console, began >>

\* mutant of Finish: bot.quit() is forgotten
Finish_NoQuit ==
    /\ Resolved("w_final")
    /\ out' = Append(out, Call("say_done", NoVec, ""))
    /\ pc' = "done"
    /\ UNCHANGED << mainVars, instructions, pcMain, exitCode, conn, spawnOnce, now,
                    ticks, origin, target, count, targetPos, flying, console, began,
                    worldVars, faultVars, envVars >>

\* lines 125-126: the completion notification and bot.quit()
Finish ==
    /\ Resolved("w_final")
    /\ out' = out \o << Call("say_done", NoVec, ""), Call("quit", NoVec, "") >>
    /\ conn' = "ended"
    /\ pc' = "done"
    /\ UNCHANGED << mainVars, instructions, pcMain, exitCode, spawnOnce, now, ticks,
                    origin, target, count, targetPos, flying, console, began, worldVars,
                    faultVars, envVars >>

(* ------------------------- the world's events ------------------------- *)

\* the server applies the oldest pending teleport: bot.entity.position changes
TeleportArrives ==
    /\ ~Runnable
    /\ conn = "online"
    /\ pendingTp # <<>>
    /\ botPos' = IF Head(pendingTp).toPlayer THEN playerPos ELSE Head(pendingTp).pos
    /\ pendingTp' = Tail(pendingTp)
    /\ UNCHANGED << mainVars, instructions, pcMain, exitCode, conn, spawnOnce, now,
                    execVars, playerHere, playerPos, faultVars, envVars >>

\* the entity nearestEntity returned walks elsewhere: target.position changes
PlayerMoves ==
    /\ ~Runnable
    /\ conn = "online"
    /\ target
    /\ playerPos' \in PlayerSpots \ {playerPos}
    /\ UNCHANGED << mainVars, instructions, pcMain, exitCode, conn, spawnOnce, now,
                    execVars, botPos, pendingTp, playerHere, faultVars, envVars >>

\* line 129: an 'error' event is logged; the connection may survive it
EmitError ==
    /\ ~Runnable
    /\ conn \in {"connecting", "online"}
    /\ faults' = faults \cup {"error"}
    /\ faultInLoop' = (faultInLoop \/ pc \in LoopPcs)
    /\ conn' \in {conn, "ended"}
    /\ UNCHANGED << mainVars, instructions, pcMain, exitCode, spawnOnce, now,
                    execVars, worldVars, envVars >>

\* line 130: a 'kicked' event is logged; the server has closed the connection
EmitKicked ==
    /\ ~Runnable
    /\ conn \in {"connecting", "online"}
    /\ faults' = faults \cup {"kicked"}
    /\ faultInLoop' = (faultInLoop \/ pc \in LoopPcs)
    /\ conn' = "ended"
    /\ UNCHANGED << mainVars, instructions, pcMain, exitCode, spawnOnce, now,
                    execVars, worldVars, envVars >>

(* ------------------------------ the system ---------------------------- *)

Next ==
    \/ MainUsageError
    \/ MainFileNotFound
    \/ MainParseError
    \/ MainCreateBot
    \/ EmitSpawn
    \/ Tick
    \/ ExecExplicit
    \/ ExecStartFlying
    \/ ExecEnterLoop
    \/ ExecNoPlayer
    \/ ExecSyncPlayer
    \/ ExecDeriveOrigin
    \/ LoopSkip
    \/ LoopMove
    \/ LoopLook
    \/ AfterMove
    \/ LookAtResolves
    \/ Place
    \/ AfterPace
    \/ LoopExit
    \/ Finish
    \/ TeleportArrives
    \/ PlayerMoves
    \/ EmitError
    \/ EmitKicked

Spec == Init /\ [][Next]_vars

\* JSON.parse (line 30) accepts any JSON: an instruction may lack a field, and
\* reading the field then gives undefined.  A placement without "block", an
\* instruction without "action", and a well-formed placement
MalformedInstrs ==
    { Instr(0, 0, 0, "setblock", "stone"),
      Instr(0, 1, 0, "place", Undefined),
      Instr(6, 0, 0, Undefined, "glass") }

MalformedPlanFiles ==
    { [hasInstructions |-> TRUE, instructions |-> p] :
          p \in UNION { [1..n -> MalformedInstrs] : n \in 0..MaxLen } }

\* the program run on plan files that lack fields
MalformedSpec == Start(MalformedPlanFiles, ArgChoices, {{}}) /\ [][Next]_vars

\* a world in which the placements of the plans at the explicit origin
\* 10 64 0 are already built
BuiltWorld ==
    { [p |-> Vec3(Blocks(10), Blocks(64), Blocks(0)), b |-> "stone"],
      [p |-> Vec3(Blocks(10), Blocks(65), Blocks(0)), b |-> "oak_planks"] }

\* the program run in an empty world and in one already built
WorldSpec == Start(PlanFiles, ArgChoices, {{}, BuiltWorld}) /\ [][Next]_vars

\* two long plans: placements only, and one whose first and fifth instructions
\* are annotations
LongPlanFiles ==
    { [hasInstructions |-> TRUE,
       instructions |-> [i \in 1..LongLen |->
                            IF i % 2 = 1 THEN Instr(0, 0, 0, "setblock", "stone")
                                         ELSE Instr(0, 1, 0, "place", "oak_planks")]],
      [hasInstructions |-> TRUE,
       instructions |-> [i \in 1..LongLen |->
                            IF i \in {1, 5} THEN Instr(6, 0, 0, "annotation", "glass")
                                            ELSE Instr(0, 0, 0, "setblock", "stone")]] }

\* the program run on the long plans
LongSpec == Start(LongPlanFiles, ArgChoices, {{}}) /\ [][Next]_vars

\* mutant of EmitRespawn: the listener is registered with bot.on, and the
\* handler starts over on the further event
EmitRespawn_On ==
    /\ ~Runnable
    /\ conn = "online"
    /\ ~respawned
    /\ respawned' = TRUE
    /\ botPos' = SpawnPoint
    /\ out' = Append(out, Call("gamemode", NoVec, ""))
    /\ ticks' = SpawnSettleTicks
    /\ pc' = "w_gm"
    /\ UNCHANGED << mainVars, instructions, pcMain, exitCode, conn, spawnOnce, now,
                    origin, target, count, targetPos, flying, console, began,
                    pendingTp, playerHere, playerPos, faultVars, world >>

\* the library emits 'spawn' once more (the agent died and respawned at the
\* spawn point): the once listener of line 41 is gone after the first emission
EmitRespawn ==
    /\ ~Runnable
    /\ conn = "online"
    /\ ~respawned
    /\ respawned' = TRUE
    /\ botPos' = SpawnPoint
    /\ IF spawnOnce
       THEN /\ out' = Append(out, Call("gamemode", NoVec, ""))
            /\ ticks' = SpawnSettleTicks
            /\ pc' = "w_gm"
       ELSE UNCHANGED << out, ticks, pc >>
    /\ UNCHANGED << mainVars, instructions, pcMain, exitCode, conn, spawnOnce, now,
                    origin, target, count, targetPos, flying, console, began,
                    pendingTp, playerHere, playerPos, faultVars, world >>

RespawnNext == Next \/ EmitRespawn

\* the program with a further spawn event during the run
RespawnSpec == Init /\ [][RespawnNext]_vars

\* the command lines of ArgChoices, and one whose first coordinate is the
\* empty string
ArgChoicesWithEmpty == ArgChoices \cup { <<"", "64", "0">> }

\* the program run on these command lines
ArgSpec == Start(PlanFiles, ArgChoicesWithEmpty, {{}}) /\ [][Next]_vars

\* the synchronous code of the program: the runtime runs it as soon as it is ready
Program ==
    \/ MainUsageError \/ MainFileNotFound \/ MainParseError \/ MainCreateBot
    \/ ExecExplicit \/ ExecStartFlying \/ ExecEnterLoop
    \/ ExecNoPlayer \/ ExecSyncPlayer \/ ExecDeriveOrigin
    \/ LoopSkip \/ LoopMove \/ LoopLook \/ AfterMove \/ Place \/ AfterPace
    \/ LoopExit \/ Finish

\* the tick scheduler keeps advancing, the server answers, the library resolves
\* its promises; lifecycle events and the player's moves are under no obligation
FairSpec ==
    /\ Spec
    /\ WF_vars(Program)
    /\ WF_vars(Tick)
    /\ WF_vars(EmitSpawn)
    /\ WF_vars(TeleportArrives)
    /\ WF_vars(LookAtResolves)

(* ====================================================================== *)
(*                              the claims                                *)
(* ====================================================================== *)

\* the placement commands issued so far, in order
Placed == SelectSeq(out, LAMBDA e : e.k = "setblock")

\* the positions in out of the calls of kind k
At(k) == { j \in DOMAIN out : out[j].k = k }

\* the completion notification has been sent
Completed == At("say_done") # {}

\* the for loop has run to its end
LoopOver == pc \in {"w_final", "done"}

\* the (position, block) pairs a plan asks for at origin o, in plan order
RECURSIVE Wanted(_, _)
Wanted(ins, o) ==
    IF ins = <<>>
    THEN <<>>
    ELSE LET h == Head(ins)
             rest == Wanted(Tail(ins), o)
         IN IF h.action \in {"setblock", "place"}
            THEN << [p |-> [x |-> o.x + Scale * h.x, y |-> o.y + Scale * h.y,
                            z |-> o.z + Scale * h.z],
                     b |-> h.block] >> \o rest
            ELSE rest

\* the (position, block) pairs of the placement commands issued
Issued == [j \in 1..Len(Placed) |-> [p |-> Placed[j].p, b |-> Placed[j].b]]

\* C1: the placement commands issued are, in order and without duplicate or
\* omission, the (origin + offset, block) pairs of the instructions whose action
\* is 'setblock' or 'place'; each carries 'replace'; at every moment they are a
\* prefix of that list and once the loop is over they are the whole list
C1_PlacementsFollowPlan ==
    /\ \A j \in DOMAIN Placed : Placed[j].m = "replace"
    /\ origin = <<>> => Placed = <<>>
    /\ origin # <<>> =>
          LET want == Wanted(instructions, origin[1])
          IN /\ Len(Issued) <= Len(want)
             /\ Issued = SubSeq(want, 1, Len(Issued))
             /\ LoopOver => Issued = want

\* C1 witness: a finished run that placed a block and skipped an annotation
C1_Witness ==
    /\ pc = "done"
    /\ Len(Placed) >= 1
    /\ Len(Placed) < Len(instructions)

\* C2: a teleport is issued for a recognized instruction exactly when the agent
\* stood farther than 4 blocks from the target as the instruction was taken up:
\* then exactly one, to 2 blocks above the target, and 20 ticks pass before the
\* agent is turned to the target and the block placed; otherwise none
C2_RepositionIffOutOfReach ==
    /\ \A j \in At("look") :
          LET e == out[j]
              moved == j > 1 /\ out[j - 1].k = "tp" /\ out[j - 1].i = e.i
              first == IF moved THEN out[j - 1] ELSE e
              tps == { n \in At("tp") : out[n].i = e.i }
          IN /\ moved <=> DistSq(first.from, e.p) > (4 * Scale) * (4 * Scale)
             /\ moved => /\ tps = {j - 1}
                         /\ out[j - 1].p = [e.p EXCEPT !.y = @ + 2 * Scale]
                         /\ e.t >= out[j - 1].t + 20
             /\ ~moved => tps = {}
    /\ \A j \in At("tp") :
          out[j].i >= 1 =>
             DistSq(out[j].from, [out[j].p EXCEPT !.y = @ - 2 * Scale])
                 > (4 * Scale) * (4 * Scale)
    /\ \A j \in At("setblock") :
          /\ j > 1
          /\ out[j - 1].k = "look"
          /\ out[j - 1].i = out[j].i
          /\ out[j - 1].p = out[j].p

\* C2 witness: one run with a placement exactly 4 blocks from the agent, placed
\* without a teleport, and a placement farther away, placed after one
C2_Witness ==
    /\ \E j \in At("look") :
          /\ out[j - 1].k # "tp"
          /\ DistSq(out[j].from, out[j].p) = (4 * Scale) * (4 * Scale)
    /\ \E j \in At("look") : out[j - 1].k = "tp" /\ out[j - 1].i = out[j].i
    /\ Len(Placed) = 2

\* C3 (as claimed): once an error or kicked event has arrived inside the
\* instruction loop, no further placement command is issued and the completion
\* notification is not sent
C3_FaultStopsRun ==
    [][faultInLoop => (Len(Placed') = Len(Placed) /\ ~Completed')]_vars

\* explicit coordinates were supplied: all three arguments present and non-empty
AllSupplied == \A n \in 1..3 : args[n] \notin {"undefined", ""}

\* C4: without explicit coordinates and without a player to be found, the run
\* issues no teleport and no placement and takes up no instruction
C4_NoOriginNoWork ==
    (~AllSupplied /\ ~playerHere) =>
        /\ At("tp") = {} /\ At("tp_player") = {}
        /\ At("look") = {} /\ At("setblock") = {}
        /\ count = 0 /\ began = <<>> /\ origin = <<>>
        /\ pc \in {"idle", "w_gm", "returned"}

\* C4 witness: the abort has happened with a plan that holds instructions
C4_Witness ==
    /\ pc = "returned"
    /\ At("say_noplayer") # {}
    /\ Len(instructions) >= 1

\* C5 (as claimed): a run in which the agent spawned and no error or kick
\* occurs eventually has its connection closed by the program, the run
\* aborted for lack of an origin included
C5_EveryRunDisconnects ==
    (conn = "online") ~> (At("quit") # {} \/ faults # {})

\* C6: without a project name, or without the plan file, the process exits with
\* a non-zero code and no connection, chat command or placement ever occurs
C6_FailFast ==
    (projectName \in {"undefined", ""} \/ fileState = "missing") =>
        /\ conn = "none"
        /\ out = <<>>
        /\ pc = "idle"
        /\ pcMain \in {"start", "exited"}
        /\ pcMain = "exited" => exitCode > 0

\* C6 witness: the process has exited for a missing plan file
C6_Witness ==
    /\ pcMain = "exited"
    /\ projectName = "demo"
    /\ fileState = "missing"

\* the plan file holds no instruction: an empty list, or no instructions field
EmptyPlan == ~plan.hasInstructions \/ Len(plan.instructions) = 0

\* the run ended with the completion notification followed by the disconnect
CleanlyCompleted ==
    /\ Len(out) >= 2
    /\ out[Len(out) - 1].k = "say_done"
    /\ out[Len(out)].k = "quit"
    /\ conn = "ended"

\* C7 (as claimed): an empty plan yields no placement command, and the run of
\* an agent that spawned and meets no error or kick completes cleanly
C7_EmptyPlanAlwaysCompletes ==
    /\ [](EmptyPlan => Placed = <<>>)
    /\ (conn = "online" /\ EmptyPlan) ~> (CleanlyCompleted \/ faults # {})

\* C7 (amended): an empty plan yields no placement command; when an origin can
\* be resolved (explicit coordinates, or a player to be found) the run of an
\* agent that spawned and meets no error or kick completes cleanly, and the
\* completion notification is never sent without the disconnect
C7_EmptyPlanCompletes ==
    /\ [](EmptyPlan => (Placed = <<>> /\ (Completed => CleanlyCompleted)))
    /\ (conn = "online" /\ EmptyPlan /\ (AllSupplied \/ playerHere))
           ~> (CleanlyCompleted \/ faults # {})

\* C7 witness: a run whose plan file has no instructions field has completed
C7_Witness ==
    /\ ~plan.hasInstructions
    /\ pc = "done"
    /\ CleanlyCompleted

\* when the pacing wait of the i-th instruction began: at its placement
\* command, or as the iteration began when the instruction was skipped
PaceStart(i) ==
    IF \E n \in At("setblock") : out[n].i = i
    THEN out[CHOOSE n \in At("setblock") : out[n].i = i].t
    ELSE began[i]

\* C8: the completion notification is sent once, after every instruction was
\* taken up and every recognized one placed, 5 ticks of pacing and 4 further
\* ticks after the last instruction; the disconnect follows it directly and is
\* the last call of the run
C8_CompletionComesLast ==
    /\ \A j \in At("say_done") :
          /\ At("say_done") = {j}
          /\ Len(out) = j + 1
          /\ out[j + 1].k = "quit"
          /\ count = Len(instructions)
          /\ Len(began) = Len(instructions)
          /\ Len(Placed) =
                Cardinality({ n \in DOMAIN instructions :
                                 instructions[n].action \in {"setblock", "place"} })
          /\ Len(instructions) > 0 =>
                out[j].t = PaceStart(Len(instructions)) + 5 + 4
          /\ Len(instructions) = 0 => out[j].t >= out[j - 1].t + 4
    /\ \A j \in At("quit") : j > 1 /\ out[j - 1].k = "say_done"

\* C8 witness: a completed run of two instructions, the last one skipped
C8_Witness ==
    /\ pc = "done"
    /\ Len(instructions) = 2
    /\ Len(Placed) = 1
    /\ instructions[2].action = "annotation"

\* C9: the next instruction is taken up exactly 5 ticks after the previous one
\* was placed or skipped, so two placement commands are at least 5 ticks apart
C9_PacingAfterEveryInstruction ==
    /\ \A i \in 1..(Len(began) - 1) : began[i + 1] = PaceStart(i) + 5
    /\ \A j \in 1..(Len(Placed) - 1) : Placed[j + 1].t >= Placed[j].t + 5
    /\ (LoopOver /\ Len(began) > 0) => now >= PaceStart(Len(began)) + 5

\* C9 witness: a skipped instruction followed by a placement after a teleport
C9_Witness ==
    /\ Len(began) = 2
    /\ instructions[1].action = "annotation"
    /\ \E j \in At("tp") : out[j].i = 2
    /\ Len(Placed) = 1

\* C10 (as claimed): before a placement command the agent was teleported and
\* put into flight mode, 20 ticks or more passed since the teleport and some
\* ticks passed since flight mode was entered
C10_SettledAfterTeleportAndFlight ==
    \A j \in At("setblock") :
       \E a \in At("tp") \cup At("tp_player"), f \in At("fly") :
          /\ a < j /\ f < j
          /\ out[a].i = 0
          /\ out[j].t >= out[a].t + 20
          /\ out[j].t > out[f].t

\* C10 (amended): before a placement command the agent was teleported (to 5
\* blocks above the explicit origin, or to the player) and put into flight
\* mode; with explicit coordinates flight mode is entered 20 ticks after the
\* teleport and 40 more ticks pass before the loop; with a derived origin
\* flight mode is entered 40 ticks after the teleport and the loop starts at once
C10_SettledBeforeFirstPlacement ==
    \A j \in At("setblock") :
       \E a \in At("tp") \cup At("tp_player"), f \in At("fly") :
          /\ a < f /\ f < j
          /\ out[a].i = 0
          /\ flying
          /\ At("fly") = {f}
          /\ AllSupplied =>
                /\ out[a].k = "tp"
                /\ out[a].p = [origin[1] EXCEPT !.y = @ + 5 * Scale]
                /\ out[f].t = out[a].t + 20
                /\ out[j].t >= out[f].t + 40
          /\ ~AllSupplied =>
                /\ out[a].k = "tp_player"
                /\ out[f].t = out[a].t + 40
                /\ out[j].t >= out[f].t

\* C10 witness: with a derived origin, a block is placed in the very tick in
\* which flight mode was entered
C10_Witness ==
    /\ ~AllSupplied
    /\ \E j \in At("setblock"), f \in At("fly") : out[j].t = out[f].t

\* C10 second case: with explicit coordinates a block has been placed
C10_WitnessExplicit ==
    /\ AllSupplied
    /\ At("setblock") # {}

\* the loop is about to take up an instruction whose action is no placement
SkipDue ==
    /\ pc = "loop"
    /\ count < Len(instructions)
    /\ instructions[count + 1].action \notin {"setblock", "place"}

\* C11: an instruction whose action is not 'setblock' or 'place' causes no call
\* at all (no teleport, no look-at, no placement, no progress line) and leaves
\* the origin, the pending teleports and the agent's position as they were; the
\* loop goes on to the next instruction after the 5 ticks of pacing
C11_SkipIsSilent ==
    /\ [](\A j \in At("tp") \cup At("look") \cup At("setblock") :
             out[j].i >= 1 => instructions[out[j].i].action \in {"setblock", "place"})
    /\ [][SkipDue =>
             /\ out' = out
             /\ console' = console
             /\ origin' = origin
             /\ pendingTp' = pendingTp
             /\ botPos' = botPos
             /\ count' = count + 1
             /\ pc' = "w_pace"
             /\ ticks' = 5]_vars

\* C11 witness: a finished run whose first instruction, an annotation out of
\* the agent's reach, left no call and whose second instruction was placed
C11_Witness ==
    /\ pc = "done"
    /\ Len(instructions) = 2
    /\ instructions[1].action = "annotation"
    /\ \A j \in At("tp") \cup At("look") \cup At("setblock") : out[j].i # 1
    /\ \E j \in At("setblock") : out[j].i = 2

\* the world position of the i-th instruction at origin o
TargetAt(o, i) ==
    [x |-> o.x + Scale * instructions[i].x,
     y |-> o.y + Scale * instructions[i].y,
     z |-> o.z + Scale * instructions[i].z]

\* C12: the origin is set once, before the first instruction is taken up, and
\* never changes; every position of the run (reposition, look-at, placement) is
\* the same origin plus the instruction's offset, wherever the entity the
\* origin was read from has gone since; the loaded plan never changes
C12_OriginFixed ==
    /\ [](/\ Cardinality(At("say_origin")) <= 1
          /\ origin = <<>> => (count = 0 /\ began = <<>>)
          /\ pcMain = "running" =>
                instructions = IF plan.hasInstructions THEN plan.instructions ELSE <<>>
          /\ \A j \in At("look") \cup At("setblock") :
                out[j].p = TargetAt(origin[1], out[j].i)
          /\ \A j \in At("tp") :
                out[j].i >= 1 =>
                   out[j].p = [TargetAt(origin[1], out[j].i) EXCEPT !.y = @ + 2 * Scale]
          /\ \A j \in At("say_origin") : out[j].p = origin[1])
    /\ [][origin # <<>> => origin' = origin]_vars
    /\ [][pcMain = "running" => instructions' = instructions]_vars
    /\ [][plan' = plan]_vars

\* C12 witness: the player the origin was read from stands elsewhere by now,
\* and the second instruction of the run is about to be placed at its offset
\* from the origin
C12_Witness ==
    /\ target
    /\ origin # <<>>
    /\ origin[1] # [x |-> playerPos.x - (playerPos.x % Scale),
                    y |-> playerPos.y - (playerPos.y % Scale),
                    z |-> playerPos.z - (playerPos.z % Scale)]
    /\ pc = "place"
    /\ count = 2
    /\ targetPos = TargetAt(origin[1], 2)

\* an instruction of the plan file lacks a required field
Malformed(pl) ==
    \E i \in DOMAIN pl.instructions :
        \/ pl.instructions[i].action = Undefined
        \/ pl.instructions[i].block = Undefined

\* C13: a plan with an instruction lacking a required field is rejected before
\* any connection: the agent never connects and issues no call, and no
\* placement command carries a missing block identifier
C13_MalformedPlanRejected ==
    /\ Malformed(plan) => (conn = "none" /\ out = <<>>)
    /\ \A j \in At("setblock") : out[j].b # Undefined

\* a command as the server sees it: kind, position, block and modifier
Cmd(k, p, b, m) == [k |-> k, p |-> p, b |-> b, m |-> m]

\* the commands issued so far, without the history fields
Cmds == [j \in DOMAIN out |-> Cmd(out[j].k, out[j].p, out[j].b, out[j].m)]

Up(p, n) == [x |-> p.x, y |-> p.y + n * Scale, z |-> p.z]

OutOfReach(a, b) ==
    (a.x - b.x) * (a.x - b.x) + (a.y - b.y) * (a.y - b.y) + (a.z - b.z) * (a.z - b.z)
        > 16 * Scale * Scale

\* the commands of instructions i.. at origin o for an agent standing at pos:
\* a function of the plan, the origin and the agent's own earlier moves only
RECURSIVE LoopScript(_, _, _, _)
LoopScript(ins, o, i, pos) ==
    IF i > Len(ins) THEN << >>
    ELSE LET t == [x |-> o.x + Scale * ins[i].x,
                   y |-> o.y + Scale * ins[i].y,
                   z |-> o.z + Scale * ins[i].z]
             put == << Cmd("look", t, "", ""), Cmd("setblock", t, ins[i].block, "replace") >>
         IN  IF ins[i].action \notin {"setblock", "place"}
             THEN LoopScript(ins, o, i + 1, pos)
             ELSE IF OutOfReach(pos, t)
                  THEN << Cmd("tp", Up(t, 2), "", "") >> \o put
                           \o LoopScript(ins, o, i + 1, Up(t, 2))
                  ELSE put \o LoopScript(ins, o, i + 1, pos)

\* the whole command sequence of a run with explicit origin o
Script(ins, o) ==
    << Cmd("gamemode", NoVec, "", ""), Cmd("say_start", NoVec, "", ""),
       Cmd("say_origin", o, "", ""), Cmd("tp", Up(o, 5), "", ""),
       Cmd("fly", NoVec, "", "") >>
       \o LoopScript(ins, o, 1, Up(o, 5))
       \o << Cmd("say_done", NoVec, "", ""), Cmd("quit", NoVec, "", "") >>

IsPrefix(a, b) == Len(a) <= Len(b) /\ \A j \in DOMAIN a : a[j] = b[j]

\* the origin given on the command line as 10 64 0
ExplicitO == [x |-> 10 * Scale, y |-> 64 * Scale, z |-> 0]

\* C14: with an explicit origin the commands issued are those of a script
\* fixed by the plan and the origin alone, whatever blocks the world holds (in
\* an empty world as in one already matching the plan); the completed run has
\* issued the whole script
C14_CommandsIgnoreWorld ==
    (pcMain = "running" /\ AllSupplied) =>
        /\ IsPrefix(Cmds, Script(instructions, ExplicitO))
        /\ pc = "done" => Cmds = Script(instructions, ExplicitO)

\* C14 witness: a completed run of a one-placement plan in the world that
\* already held the block, the placement command issued all the same
C14_Witness ==
    /\ pc = "done"
    /\ AllSupplied
    /\ Len(instructions) = 1
    /\ world = BuiltWorld
    /\ \E j \in At("setblock") :
          [p |-> out[j].p, b |-> out[j].b] \in BuiltWorld /\ out[j].m = "replace"

\* the indices of the instructions whose placement command has been issued
PlacedIdx == { out[j].i : j \in At("setblock") }

\* the indices a progress line has been logged for
LoggedIdx == { console[a] : a \in DOMAIN console }

\* first, every fifth, last
OnCadence(i, n) == i = 1 \/ i % 5 = 0 \/ i = n

\* C15 as stated: once the loop is over a progress line has been logged for
\* index i exactly when i = 1, i is a multiple of 5, or i = N
C15_ProgressAtCadence ==
    pc \in {"w_final", "done"} =>
        LoggedIdx = { i \in 1..Len(instructions) : OnCadence(i, Len(instructions)) }

\* C15 amended: a progress line is logged for index i exactly when instruction
\* i is a placement (setblock or place) and i = 1, i is a multiple of 5, or
\* i = N, once each and in order; a plan of 12 placements logs 1, 5, 10, 12
C15_ProgressOfPlacements ==
    /\ \A a, b \in DOMAIN console : a < b => console[a] < console[b]
    /\ LoggedIdx = { i \in PlacedIdx : OnCadence(i, Len(instructions)) }
    /\ pc \in {"w_final", "done"} =>
          PlacedIdx = { i \in 1..Len(instructions) :
                            instructions[i].action \in {"setblock", "place"} }
    /\ ( /\ pc = "done"
         /\ Len(instructions) = 12
         /\ \A i \in 1..12 : instructions[i].action \in {"setblock", "place"} )
          => console = << 1, 5, 10, 12 >>

\* C15 witness: a completed plan of 12 placements with its four progress lines
C15_Witness ==
    /\ pc = "done"
    /\ Len(instructions) = 12
    /\ console = << 1, 5, 10, 12 >>

\* C16: the plan is executed at most once, by one sequential task: the handler
\* starts on the first spawn event only, a later spawn event changes nothing of
\* the execution, and the calls of the run are in instruction order, one
\* placement per instruction, those of different instructions never interleaved
C16_ExecutedOnceInOrder ==
    /\ [](/\ Cardinality(At("gamemode")) <= 1
          /\ Cardinality(At("say_start")) <= 1
          /\ Cardinality(At("say_done")) <= 1
          /\ Len(began) = count
          /\ \A a, b \in DOMAIN out : a < b => out[a].i <= out[b].i
          /\ \A a, b \in At("setblock") : out[a].i = out[b].i => a = b
          /\ \A a, b \in At("look") : out[a].i = out[b].i => a = b)
    /\ [][respawned' # respawned =>
             /\ pc' = pc
             /\ ticks' = ticks
             /\ count' = count
             /\ out' = out
             /\ spawnOnce' = spawnOnce]_vars
    /\ [][(pc # "idle" /\ pc' # pc) => pc' # "w_gm"]_vars

\* C16 witness: the further spawn event came while the loop was under way, and
\* the run completed a two-placement plan with each placement issued once
C16_Witness ==
    /\ respawned
    /\ pc = "done"
    /\ Len(instructions) = 2
    /\ Len(Placed) = 2
    /\ \E j \in At("setblock") : out[j].i = 2 /\ out[j].from = SpawnPoint

\* the instruction of call j was repositioned for
Repositioned(j) == \E k \in At("tp") : out[k].i = out[j].i /\ out[k].i >= 1

\* C17: with a teleport taking effect within the wait that follows it and the
\* agent not moved otherwise, the agent stands within 4 blocks of the target
\* at each placement command, and exactly 2 blocks above it after a reposition
C17_PlacedWithinReach ==
    \A j \in At("setblock") :
        /\ ~OutOfReach(out[j].from, out[j].p)
        /\ Repositioned(j) => out[j].from = Up(out[j].p, 2)

\* C17 witness: one placement issued from exactly 4 blocks away without a
\* reposition, and one issued after a reposition
C17_Witness ==
    /\ \E j \in At("setblock") :
          /\ ~Repositioned(j)
          /\ out[j].from = Up(out[j].p, 4)
    /\ \E j \in At("setblock") :
          /\ Repositioned(j)
          /\ out[j].from = Up(out[j].p, 2)

\* the hover teleport of the explicit strategy: a teleport before the loop
HoverTps == { j \in At("tp") : out[j].i = 0 }

\* a position floored to whole blocks
WholeBlocks(v) ==
    [x |-> v.x - (v.x % Scale), y |-> v.y - (v.y % Scale), z |-> v.z - (v.z % Scale)]

\* C18: one origin strategy per run, chosen by the arguments alone: explicit
\* exactly when all three coordinates are supplied (a coordinate that is absent
\* or the empty string is not supplied, "0" is), and then without a
\* nearest-entity query; otherwise the coordinates given are ignored, the
\* nearest player is queried once and the origin is its position floored
C18_OneOriginStrategy ==
    /\ [](/\ AllSupplied =>
                /\ At("query") = {} /\ At("tp_player") = {} /\ ~target
                /\ origin # <<>> => origin[1] = ExplicitO
                /\ pc \notin {"idle", "w_gm"} => Cardinality(HoverTps) = 1
          /\ ~AllSupplied =>
                /\ HoverTps = {}
                /\ pc \notin {"idle", "w_gm"} => Cardinality(At("query")) = 1
                /\ origin # <<>> =>
                      target /\ origin[1] \in { WholeBlocks(q) : q \in PlayerSpots }
          /\ pc \in {"idle", "w_gm"} => origin = <<>>)
    /\ [][(origin = <<>> /\ origin' # <<>> /\ ~AllSupplied) =>
              origin'[1] = WholeBlocks(playerPos)]_vars

\* C18 witness: a completed run given an empty first coordinate and two more:
\* they were ignored, the player was queried, and the origin is the floor of a
\* position with a negative fractional coordinate
C18_Witness ==
    /\ args = << "", "64", "0" >>
    /\ pc = "done"
    /\ Cardinality(At("query")) = 1
    /\ origin[1].x = 0 - Scale
    /\ Len(Placed) >= 1

====
